---- MODULE Spec2Model ----
(***************************************************************************)
(* Model of notebook/auth/login.py (LoginHandler): token and cookie        *)
(* identity resolution, the login form's GET and POST, the login cookie,   *)
(* the origin-check policy and the guarded login redirect.                 *)
(*                                                                         *)
(* Strings that the code takes apart (URLs, origins, base_url) are         *)
(* sequences of one-character strings; secrets that the code only compares *)
(* (tokens, passwords) are TLA+ strings.  Python's None is the empty       *)
(* tuple for identities and the string "None" for settings values.         *)
(***************************************************************************)
EXTENDS Integers, Sequences, FiniteSets, TLC

\* ------------------------------------------------------------------ bounds
\* longest candidate URL handed to _redirect_safe in SpecRedirect
MaxLen == 5
\* calls of get_user / is_token_authenticated / should_check_origin made on
\* one handler before its get() or post() runs
MaxCalls == 2
\* identities uuid.uuid4() hands out in one behaviour
MaxUuid == 3
\* number of requests whose get_user_token steps interleave in SpecConc
NConc == 2

\* ------------------------------------------------------- character strings
\* characters a candidate URL is made of
Alphabet == {"/", "\\", ":", "?", "h", "E"}

\* str.lower() on one character
LowerChar(c) == CASE c = "E" -> "e" [] c = "C" -> "c" [] c = "H" -> "h" [] OTHER -> c

\* str.lower()
Lower(s) == [i \in 1..Len(s) |-> LowerChar(s[i])]

\* str.startswith(prefix)
StartsWith(s, prefix) ==
    /\ Len(prefix) <= Len(s)
    /\ SubSeq(s, 1, Len(prefix)) = prefix

\* str.find(c) counted from 1: the first position of c at or after from, 0 when none
Find(s, c, from) ==
    LET hits == {i \in from..Len(s) : s[i] \in c}
    IN  IF hits = {} THEN 0 ELSE CHOOSE i \in hits : \A j \in hits : i <= j

\* all strings over Alphabet of length at most n
RECURSIVE StringsUpTo(_)
StringsUpTo(n) ==
    IF n = 0 THEN {<<>>}
    ELSE LET shorter == StringsUpTo(n - 1)
         IN  shorter \cup {Append(s, c) : s \in {t \in shorter : Len(t) = n - 1}, c \in Alphabet}

\* url.replace("\\", "%5C")
RECURSIVE replace_backslash(_)
replace_backslash(url) ==
    IF url = <<>> THEN <<>>
    ELSE (IF Head(url) = "\\" THEN <<"%", "5", "C">> ELSE <<Head(url)>>)
            \o replace_backslash(Tail(url))

\* urllib.parse: characters a scheme may hold, and the letters among them
SchemeChars == {"h", "s", "e", "E", "c", "C", "5", "+", "-", "."}
Alpha == {"h", "s", "e", "E", "c", "C"}

\* urllib.parse.urlsplit, last part: fragment and query are cut off the path
split_path(scheme, netloc, rest) ==
    LET f      == Find(rest, {"#"}, 1)
        nofrag == IF f = 0 THEN rest ELSE SubSeq(rest, 1, f - 1)
        q      == Find(nofrag, {"?"}, 1)
    IN  [scheme   |-> scheme,
         netloc   |-> netloc,
         path     |-> IF q = 0 THEN nofrag ELSE SubSeq(nofrag, 1, q - 1),
         query    |-> IF q = 0 THEN <<>> ELSE SubSeq(nofrag, q + 1, Len(nofrag)),
         fragment |-> IF f = 0 THEN <<>> ELSE SubSeq(rest, f + 1, Len(rest))]

\* urllib.parse.urlsplit, middle part: after '//' the netloc runs to the next
\* '/', '?' or '#'
split_netloc(scheme, rest) ==
    LET d     == Find(rest, {"/", "?", "#"}, 3)
        delim == IF d = 0 THEN Len(rest) + 1 ELSE d
    IN  IF StartsWith(rest, <<"/", "/">>)
        THEN split_path(scheme, SubSeq(rest, 3, delim - 1), SubSeq(rest, delim, Len(rest)))
        ELSE split_path(scheme, <<>>, rest)

\* urllib.parse.urlparse(url): scheme, netloc, path, query, fragment
\* (no ';' occurs in the modelled strings, so params is always empty)
urlparse(url) ==
    LET i         == Find(url, {":"}, 1)
        hasScheme == /\ i > 1
                     /\ url[1] \in Alpha
                     /\ \A j \in 1..(i - 1) : url[j] \in SchemeChars
    IN  IF hasScheme
        THEN split_netloc(Lower(SubSeq(url, 1, i - 1)), SubSeq(url, i + 1, Len(url)))
        ELSE split_netloc(<<>>, url)

\* urllib.parse: schemes after which urlunparse writes '//' even for an empty netloc
UsesNetloc == {<<"h">>, <<"h", "s">>}

\* urllib.parse.urlunparse(parsed)
urlunparse(p) ==
    LET u1 == IF \/ p.netloc # <<>>
                 \/ (p.scheme \in UsesNetloc /\ ~StartsWith(p.path, <<"/", "/">>))
              THEN <<"/", "/">> \o p.netloc
                     \o (IF p.path # <<>> /\ Head(p.path) # "/" THEN <<"/">> ELSE <<>>)
                     \o p.path
              ELSE p.path
        u2 == IF p.scheme # <<>> THEN p.scheme \o <<":">> \o u1 ELSE u1
        u3 == IF p.query # <<>> THEN u2 \o <<"?">> \o p.query ELSE u2
    IN  IF p.fragment # <<>> THEN u3 \o <<"#">> \o p.fragment ELSE u3

\* '%s://%s' % (scheme, netloc)
FormatOrigin(scheme, netloc) == scheme \o <<":", "/", "/">> \o netloc

\* ------------------------------------------------------------ the settings
\* Python's None, as a settings value or an absent request argument
None == "None"
\* an absent 'next' argument or 'default' parameter (a URL is a sequence)
NoUrl == <<"None">>
\* Python's None as an identity
NoUser == <<>>

\* the two request protocols, 'http' and 'https', abbreviated
HTTP  == <<"h">>
HTTPS == <<"h", "s">>

\* dict.get(key, default)
Get(dict, key, default) == IF key \in DOMAIN dict THEN dict[key] ELSE default

\* dict.pop(key, None): the dict without the key
Pop(dict, key) == [k \in (DOMAIN dict) \ {key} |-> dict[k]]

\* dict.setdefault(key, value) as the dict it leaves
SetDefault(dict, key, value) ==
    IF key \in DOMAIN dict THEN dict
    ELSE [k \in (DOMAIN dict) \cup {key} |-> IF k = key THEN value ELSE dict[k]]

\* IPythonHandler.token: the configured static token ('' when token auth is off)
token(settings) == Get(settings, "token", "")

\* IPythonHandler.one_time_token
one_time_token(settings) == Get(settings, "one_time_token", None)

\* IPythonHandler.base_url
base_url(settings) == Get(settings, "base_url", <<"/">>)

\* IPythonHandler.allow_origin ('' when not configured)
allow_origin(settings) == Get(settings, "allow_origin", <<>>)

\* IPythonHandler.allow_origin_pat (None when not configured)
allow_origin_pat(settings) == Get(settings, "allow_origin_pat", NoUrl)

\* allow_origin_pat.match(origin) for a pattern that is a literal string:
\* re.match anchors at the start of origin only
pat_match(pat, origin) == StartsWith(origin, pat)

\* LoginHandler.password_from_settings
password_from_settings(settings) == Get(settings, "password", "")

\* get_login_available answering as if something were always configured
get_login_available_always(settings) == TRUE

\* LoginHandler.get_login_available
get_login_available(settings) ==
    password_from_settings(settings) # "" \/ Get(settings, "token", "") # ""

\* the salted hash security.passwd() stores for a passphrase
Hashed(passphrase) ==
    CASE passphrase = "pw"  -> "sha1:salt:pw"
      [] passphrase = "tok" -> "sha1:salt:tok"
      [] passphrase = "ott" -> "sha1:salt:ott"
      [] passphrase = "bad" -> "sha1:salt:bad"
      [] OTHER              -> "sha1:salt:"

\* security.passwd_check(hashed_passphrase, passphrase); a hash that does not
\* split into algorithm:salt:digest (the empty one) verifies nothing
passwd_check(hashed_passphrase, passphrase) ==
    /\ hashed_passphrase # ""
    /\ passphrase # ""
    /\ hashed_passphrase = Hashed(passphrase)

\* ------------------------------------------------------------- the handler
\* a handler object as tornado constructs it for one request
NewHandler(request) ==
    [request              |-> request,
     user_id              |-> NoUser,    \* _user_id, None while unset
     token_returns        |-> {},        \* history: what get_user_token returned
     token_authenticated  |-> FALSE,     \* _token_authenticated, False while unset
     status               |-> 200,
     cookies              |-> <<>>,      \* set_secure_cookie calls, in order
     cleared              |-> 0,         \* clear_login_cookie calls
     rendered             |-> <<>>,      \* _render calls, in order
     redirects            |-> <<>>,      \* redirect calls, in order
     warnings             |-> <<>>]      \* log.warning calls, in order

\* '%s://%s' % (self.request.protocol, self.request.host)
request_origin(request) == FormatOrigin(request.protocol, request.host)

\* ---------------------------------------------------------- _redirect_safe
\* line 47 looking at the path alone, as before path_only was compared
needs_check_any_path(url, path_only, path, base) ==
    ~StartsWith(path \o <<"/">>, base)

\* line 47 without the '/' appended to the path
needs_check_no_slash(url, path_only, path, base) ==
    url # path_only \/ ~StartsWith(path, base)

\* line 47: the url is not an absolute path within base_url
needs_check(url, path_only, path, base) ==
    url # path_only \/ ~StartsWith(path \o <<"/">>, base)

\* the cross-origin check with the pattern consulted beside the exact origin
cross_origin_allowed_any(origin, own, exact, pat) ==
    \/ origin = own
    \/ exact # <<>> /\ exact = origin
    \/ pat # NoUrl /\ pat_match(pat, origin)

\* lines 55-60: the cross-origin check of a full URL
cross_origin_allowed(origin, own, exact, pat) ==
    IF origin = own THEN TRUE
    ELSE IF exact # <<>> THEN exact = origin
    ELSE IF pat # NoUrl THEN pat_match(pat, origin)
    ELSE FALSE

\* url.replace("\\", "%5C") left out
replace_nothing(url) == url

\* the url after line 44
normalized(url) == replace_backslash(url)

\* lines 46-65 of _redirect_safe, for the url of line 44 and its parse
redirect_parsed(settings, h, url, parsed, default) ==
    LET path_only == urlunparse([parsed EXCEPT !.netloc = <<>>, !.scheme = <<>>])
        origin    == Lower(FormatOrigin(parsed.scheme, parsed.netloc))
        allow     == /\ url # path_only
                     /\ cross_origin_allowed(origin, request_origin(h.request),
                                             allow_origin(settings),
                                             allow_origin_pat(settings))
        rejected  == needs_check(url, path_only, parsed.path, base_url(settings)) /\ ~allow
    IN  [h EXCEPT !.warnings  = IF rejected THEN Append(@, url) ELSE @,
                  !.redirects = Append(@, IF rejected THEN default ELSE url)]

\* line 45 of _redirect_safe: parsed = urlparse(url)
redirect_normalized(settings, h, url, default) ==
    redirect_parsed(settings, h, url, urlparse(url), default)

\* LoginHandler._redirect_safe(url, default) on handler h
_redirect_safe(settings, h, url, default) ==
    redirect_normalized(settings, h, normalized(url),
                        IF default = NoUrl THEN base_url(settings) ELSE default)

\* ------------------------------------------------- identities and cookies
\* uuid.uuid4().hex: the n-th identity minted
Uuid(n) == <<"uuid", n>>

\* the fallback identity of a server without authentication
Anonymous == <<"anonymous">>

\* a request's login cookie: none, one whose signature fails, or a signed one
NoCookie          == <<>>
BadCookie(id)     == <<"badsig", id>>
SignedCookie(id)  == <<"signed", id>>

\* a cookie read without verifying its signature
get_secure_cookie_unverified(request) ==
    IF request.cookie # NoCookie THEN request.cookie[2] ELSE NoUser

\* handler.get_secure_cookie(handler.cookie_name): None unless the signature holds
get_secure_cookie(request) ==
    IF request.cookie # NoCookie /\ request.cookie[1] = "signed"
    THEN request.cookie[2] ELSE NoUser

\* a dict without keys
EmptyDict == [k \in {} |-> TRUE]

\* line 103 looking at the protocol alone
secure_wanted_by_protocol(settings, request) == request.protocol = HTTPS

\* line 103: settings.get('secure_cookie', request.protocol == 'https')
secure_wanted(settings, request) ==
    Get(settings, "secure_cookie", request.protocol = HTTPS)

\* LoginHandler.set_login_cookie(handler, user_id); w is the settings, the
\* handler and the uuid counter together
set_login_cookie(w, user_id) ==
    LET opts0 == Get(w.settings, "cookie_options", EmptyDict)
        opts1 == SetDefault(opts0, "httponly", TRUE)
        opts2 == IF secure_wanted(w.settings, w.h.request)
                 THEN SetDefault(opts1, "secure", TRUE) ELSE opts1
    IN  [w EXCEPT
           \* cookie_options is the dict held by the settings when configured
           !.settings = IF "cookie_options" \in DOMAIN @
                        THEN [@ EXCEPT !["cookie_options"] = opts2] ELSE @,
           !.h.cookies = Append(@, [value |-> user_id, options |-> opts2]),
           !.ret = user_id]

\* str.lower() on the keyword of an Authorization header
LowerWord(word) ==
    CASE word = "Token" -> "token" [] word = "TOKEN" -> "token"
      [] word = "Bearer" -> "bearer" [] OTHER -> word

\* an Authorization header 'keyword value'; both empty when the header is absent
NoHeader == [keyword |-> "", value |-> ""]

\* get_token reading the Authorization header before the 'token' argument
get_token_header_first(request) ==
    IF /\ LowerWord(request.authorization.keyword) = "token"
       /\ request.authorization.value # ""
    THEN request.authorization.value
    ELSE request.token_arg

\* LoginHandler.get_token(handler)
get_token(request) ==
    IF request.token_arg # "" THEN request.token_arg
    ELSE IF /\ LowerWord(request.authorization.keyword) = "token"
            /\ request.authorization.value # ""
         THEN request.authorization.value
         ELSE ""

\* line 206 left out: the one-time token stays in the settings
keep_one_time_token(settings) == settings

\* line 206: handler.settings.pop('one_time_token', None)
pop_one_time_token(settings) == Pop(settings, "one_time_token")

\* lines 210-211: authenticated, return uuid.uuid4().hex
token_accepted(w) ==
    [w EXCEPT !.uuid = @ + 1,
              !.h.token_returns = @ \cup {Uuid(w.uuid)},
              !.ret = Uuid(w.uuid)]

\* lines 195 and 213: return None
token_refused(w) ==
    [w EXCEPT !.h.token_returns = @ \cup {NoUser}, !.ret = NoUser]

\* lines 199-213 of get_user_token
token_compared(w, user_token, ott) ==
    IF user_token = token(w.settings) THEN token_accepted(w)
    ELSE IF ott # None /\ ott # "" /\ user_token = ott
    THEN token_accepted([w EXCEPT !.settings = pop_one_time_token(@),
                                  !.ott_uses = @ + 1])
    ELSE token_refused(w)

\* lines 194-195 left out: an empty configured token is compared like any other
token_disabled_never(settings) == FALSE

\* line 194: not token
token_disabled(settings) == token(settings) = ""

\* LoginHandler.get_user_token(handler)
get_user_token(w) ==
    IF token_disabled(w.settings) THEN token_refused(w)
    ELSE token_compared(w, get_token(w.h.request), one_time_token(w.settings))

\* get_user marking every resolved request as token-authenticated
mark_token_authenticated_always(by_token, flag) == TRUE

\* line 172, taken on the else branch of line 166 only
mark_token_authenticated(by_token, flag) == by_token \/ flag

\* get_user without the cache of lines 163-164
cached_never(h) == FALSE

\* line 163: getattr(handler, '_user_id', None) is truthy
cached(h) == h.user_id # NoUser

\* line 176 left out: whoever has no identity becomes 'anonymous'
fallback_always(user_id, login_available) ==
    IF user_id = NoUser THEN Anonymous ELSE user_id

\* lines 173-179: 'anonymous' for nobody, only while no login is available
fallback(user_id, login_available) ==
    IF user_id = NoUser /\ ~login_available THEN Anonymous ELSE user_id

\* lines 173-183 of get_user
user_resolved(w, user_id, by_token) ==
    LET final == fallback(user_id, get_login_available(w.settings))
    IN  [w EXCEPT !.h.token_authenticated = mark_token_authenticated(by_token, @),
                  !.h.cleared = IF user_id = NoUser THEN @ + 1 ELSE @,
                  !.h.user_id = final,
                  !.ret = final]

\* lines 166-172 with a valid cookie taking precedence over the token
cookie_tried_first(w1) ==
    IF w1.ret = NoUser \/ get_secure_cookie(w1.h.request) # NoUser
    THEN user_resolved(w1, get_secure_cookie(w1.h.request), FALSE)
    ELSE user_resolved(set_login_cookie(w1, w1.ret), w1.ret, TRUE)

\* lines 166-172 of get_user; w1 is what get_user_token left
token_tried(w1) ==
    IF w1.ret = NoUser
    THEN user_resolved(w1, get_secure_cookie(w1.h.request), FALSE)
    ELSE user_resolved(set_login_cookie(w1, w1.ret), w1.ret, TRUE)

\* LoginHandler.get_user(handler)
get_user(w) ==
    IF cached(w.h) THEN [w EXCEPT !.ret = w.h.user_id]
    ELSE token_tried(get_user_token(w))

\* line 150: getattr(handler, '_user_id', None) is None
resolve_first(h) == h.user_id = NoUser

\* line 153: return getattr(handler, '_token_authenticated', False)
flag_returned(w) == [w EXCEPT !.ret = w.h.token_authenticated]

\* LoginHandler.is_token_authenticated(handler)
is_token_authenticated(w) ==
    flag_returned(IF resolve_first(w.h) THEN get_user(w) ELSE w)

\* line 138: return not ...
negated(w) == [w EXCEPT !.ret = ~w.ret]

\* LoginHandler.should_check_origin(handler)
should_check_origin(w) == negated(is_token_authenticated(w))

\* self.get_argument('next', default=self.base_url)
next_argument(settings, next) == IF next = NoUrl THEN base_url(settings) ELSE next

\* LoginHandler._render(message)
_render(settings, h, message, next) ==
    [h EXCEPT !.rendered = Append(@, [message |-> message,
                                       next |-> next_argument(settings, next)])]

\* lines 93-94: self._redirect_safe(next_url)
redirect_next(w, next) ==
    [w EXCEPT !.h = _redirect_safe(w.settings, w.h, next_argument(w.settings, next), NoUrl),
              !.ret = None]

\* lines 68-72 of get; w1 is what self.current_user left
user_asked(w1, next) ==
    IF w1.ret # NoUser THEN redirect_next(w1, next)
    ELSE [w1 EXCEPT !.h = _render(w1.settings, w1.h, None, next), !.ret = None]

\* LoginHandler.get(); next is the 'next' argument, NoUrl when absent
get(w, next) == user_asked(get_user(w), next)

\* post accepting the one-time token in the password field
token_as_password_or_ott(settings, typed_password) ==
    \/ token(settings) # "" /\ token(settings) = typed_password
    \/ one_time_token(settings) = typed_password

\* post without the elif of line 86
token_as_password_never(settings, typed_password) == FALSE

\* line 86: self.token and self.token == typed_password
token_as_password(settings, typed_password) ==
    token(settings) # "" /\ token(settings) = typed_password

\* a login by POST that also uses up the one-time token
logged_in_consuming(w) ==
    set_login_cookie([w EXCEPT !.uuid = @ + 1,
                               !.settings = pop_one_time_token(@)], Uuid(w.uuid))

\* lines 85 and 87: self.set_login_cookie(self, uuid.uuid4().hex)
logged_in(w) == set_login_cookie([w EXCEPT !.uuid = @ + 1], Uuid(w.uuid))

\* LoginHandler.post(); typed_password and next are the request's arguments
post(w, typed_password, next) ==
    IF ~get_login_available(w.settings) THEN redirect_next(w, next)
    ELSE IF \/ passwd_check(password_from_settings(w.settings), typed_password)
            \/ token_as_password(w.settings, typed_password)
    THEN redirect_next(logged_in(w), next)
    ELSE [w EXCEPT !.h = _render(w.settings, [w.h EXCEPT !.status = 401],
                                 "Invalid password", next),
                   !.ret = None]

\* ------------------------------------------------------------------- state
VARIABLES
    settings,      \* the tornado settings dict shared by every handler
    handler,       \* the handler object of the request being processed
    uuid_counter,  \* how many identities uuid.uuid4() has handed out
    ott_uses,      \* history: requests authenticated by the one-time token
    born,          \* history: uuid_counter when the current request arrived
    calls,         \* calls made on the current handler before get() or post()
    phase,         \* "idle" between requests, "open" while a handler may be
                   \* called, "done" once its get() or post() has run
    last,          \* history: the last call, its arguments and what it returned
    procs          \* SpecConc: the requests inside get_user_token, by step

vars == <<settings, handler, uuid_counter, ott_uses, born, calls, phase, last, procs>>

\* the settings, the current handler and the uuid counter as one value
World == [settings |-> settings, h |-> handler, uuid |-> uuid_counter,
          ott_uses |-> ott_uses, ret |-> None]

NoCall == [op |-> "none", ret |-> None, password |-> "", next |-> NoUrl, default |-> NoUrl]

\* ------------------------------------------------------------------ inputs
\* the secrets a server is configured with
TokenConfigs ==
    {("password" :> pw) @@ ("token" :> tok) @@ ott :
        pw \in {"", Hashed("pw")}, tok \in {"", "tok"},
        ott \in {EmptyDict, "one_time_token" :> "ott"}}

\* base_url and the allowed origins of the servers of Spec
UrlConfigs ==
    {("base_url" :> <<"/">>) @@ ("allow_origin" :> <<>>),
     ("base_url" :> <<"/", "h", "/">>) @@ ("allow_origin" :> <<"h", ":", "/", "/", "e">>)}

\* cookie_options and secure_cookie of the servers of Spec
CookieConfigs == {EmptyDict, "cookie_options" :> EmptyDict}

\* what a request can carry
TokenArgs   == {"", "tok", "ott", "bad"}
AuthHeaders == {NoHeader, [keyword |-> "Token", value |-> "tok"],
                [keyword |-> "Bearer", value |-> "tok"]}
Protocols   == {HTTP, HTTPS}
Passwords   == {"", "pw", "tok", "ott"}
NextArgs    == {NoUrl, <<"/", "h">>, <<"/", "/", "E">>}

\* the login cookies a browser can send once n identities have been issued:
\* none, one whose signature fails, or the newest identity
Cookies(n) == {NoCookie, BadCookie(Uuid(0)), SignedCookie(Uuid(n - 1))}

Requests(n) ==
    [token_arg : TokenArgs, authorization : AuthHeaders, cookie : Cookies(n),
     protocol : Protocols, host : {<<"h">>}]

\* ------------------------------------------------------------------ actions
\* the state a call leaves: w is what the call returns, op names the call
Leaves(w, op, password, next) ==
    /\ w.uuid <= MaxUuid
    /\ settings' = w.settings
    /\ handler' = w.h
    /\ uuid_counter' = w.uuid
    /\ ott_uses' = w.ott_uses
    /\ last' = [op |-> op, ret |-> w.ret, password |-> password, next |-> next,
                default |-> NoUrl]
    /\ UNCHANGED <<born, procs>>

\* the handler variable while no request is being processed
NoRequest == [token_arg |-> "", authorization |-> NoHeader, cookie |-> NoCookie,
              protocol |-> HTTP, host |-> <<"h">>]

\* tornado constructs a handler for the next request
NewRequest ==
    /\ phase = "idle"
    /\ \E r \in Requests(uuid_counter) : handler' = NewHandler(r)
    /\ born' = uuid_counter
    /\ phase' = "open"
    /\ UNCHANGED <<settings, uuid_counter, ott_uses, calls, last, procs>>

\* the request is over and its handler is dropped
Finish ==
    /\ phase # "idle"
    /\ handler' = NewHandler(NoRequest)
    /\ phase' = "idle"
    /\ calls' = 0
    /\ last' = NoCall
    /\ UNCHANGED <<settings, uuid_counter, ott_uses, born, procs>>

\* a handler asks for the current user (web.authenticated, current_user)
GetUser ==
    /\ phase = "open" /\ calls < MaxCalls
    /\ Leaves(get_user(World), "get_user", "", NoUrl)
    /\ calls' = calls + 1
    /\ UNCHANGED phase

IsTokenAuthenticated ==
    /\ phase = "open" /\ calls < MaxCalls
    /\ Leaves(is_token_authenticated(World), "is_token_authenticated", "", NoUrl)
    /\ calls' = calls + 1
    /\ UNCHANGED phase

ShouldCheckOrigin ==
    /\ phase = "open" /\ calls < MaxCalls
    /\ Leaves(should_check_origin(World), "should_check_origin", "", NoUrl)
    /\ calls' = calls + 1
    /\ UNCHANGED phase

\* GET on the login page
LoginGet ==
    /\ phase = "open"
    /\ \E next \in NextArgs : Leaves(get(World, next), "get", "", next)
    /\ phase' = "done"
    /\ UNCHANGED calls

\* POST on the login page
LoginPost ==
    /\ phase = "open"
    /\ \E typed_password \in Passwords, next \in NextArgs :
          Leaves(post(World, typed_password, next), "post", typed_password, next)
    /\ phase' = "done"
    /\ UNCHANGED calls

Init ==
    /\ settings \in {a @@ b @@ c : a \in TokenConfigs, b \in UrlConfigs, c \in CookieConfigs}
    /\ uuid_counter = 1
    /\ handler = NewHandler(NoRequest)
    /\ ott_uses = 0
    /\ born = 1
    /\ calls = 0
    /\ phase = "idle"
    /\ last = NoCall
    /\ procs = <<>>

Next ==
    \/ NewRequest
    \/ Finish
    \/ GetUser
    \/ IsTokenAuthenticated
    \/ ShouldCheckOrigin
    \/ LoginGet
    \/ LoginPost

Spec == Init /\ [][Next]_vars

\* ---------------------------------- SpecCookie: the login cookie's attributes
\* the cookie_options a server is configured with: none, an empty dict, or a
\* dict that switches one attribute off
CookieOptionConfigs ==
    {EmptyDict,
     "cookie_options" :> EmptyDict,
     "cookie_options" :> ("httponly" :> FALSE),
     "cookie_options" :> ("secure" :> FALSE)}

\* the secure_cookie setting: absent, True or False
SecureCookieConfigs == {EmptyDict, "secure_cookie" :> TRUE, "secure_cookie" :> FALSE}

\* a server with a static token and every combination of the cookie settings
InitCookie ==
    /\ settings \in {("password" :> "") @@ ("token" :> "tok")
                        @@ ("base_url" :> <<"/">>) @@ ("allow_origin" :> <<>>)
                        @@ a @@ b :
                        a \in CookieOptionConfigs, b \in SecureCookieConfigs}
    /\ uuid_counter = 1
    /\ handler = NewHandler(NoRequest)
    /\ ott_uses = 0
    /\ born = 1
    /\ calls = 0
    /\ phase = "idle"
    /\ last = NoCall
    /\ procs = <<>>

SpecCookie == InitCookie /\ [][Next]_vars

\* ------------------------------------------- SpecRedirect: _redirect_safe
\* base_url and the allowed origins _redirect_safe is run against
RedirectConfigs ==
    {("base_url" :> base) @@ ("allow_origin" :> exact) @@ pat :
        base  \in {<<"/">>, <<"/", "h", "/">>},
        exact \in {<<>>, <<"h", ":", "/", "/", "e">>},
        pat   \in {EmptyDict, "allow_origin_pat" :> <<"h", ":", "/", "/">>}}

\* the default parameter: get() and post() never give one
Defaults == {NoUrl}

\* one call of _redirect_safe(url, default) on a handler of an http request to host h
RedirectSafe ==
    /\ phase = "open"
    /\ \E url \in StringsUpTo(MaxLen), default \in Defaults :
          /\ handler' = _redirect_safe(settings, handler, url, default)
          /\ last' = [op |-> "_redirect_safe", ret |-> None, password |-> "",
                      next |-> url, default |-> default]
    /\ phase' = "done"
    /\ UNCHANGED <<settings, uuid_counter, ott_uses, born, calls, procs>>

InitRedirect ==
    /\ settings \in {("password" :> "") @@ ("token" :> "tok") @@ c : c \in RedirectConfigs}
    /\ uuid_counter = 1
    /\ handler = NewHandler([NoRequest EXCEPT !.protocol = HTTP])
    /\ ott_uses = 0
    /\ born = 1
    /\ calls = 0
    /\ phase = "open"
    /\ last = NoCall
    /\ procs = <<>>

SpecRedirect == InitRedirect /\ [][RedirectSafe]_vars

\* ------------------------- SpecConc: get_user_token, statement by statement
\* a request about to enter get_user_token
Entering(request) ==
    [pc |-> "l193", request |-> request, token |-> None, user_token |-> None,
     one_time_token |-> None, authenticated |-> FALSE, by_ott |-> FALSE, ret |-> NoUser]

Procs == 1..NConc

\* line 193-195: token = handler.token; if not token: return
ReadToken(p) ==
    /\ procs[p].pc = "l193"
    /\ procs' = [procs EXCEPT ![p].token = token(settings),
                              ![p].pc = IF token(settings) = "" THEN "done" ELSE "l197"]
    /\ UNCHANGED <<settings, handler, uuid_counter, ott_uses, born, calls, phase, last>>

\* line 197: user_token = cls.get_token(handler)
ReadUserToken(p) ==
    /\ procs[p].pc = "l197"
    /\ procs' = [procs EXCEPT ![p].user_token = get_token(procs[p].request),
                              ![p].pc = "l198"]
    /\ UNCHANGED <<settings, handler, uuid_counter, ott_uses, born, calls, phase, last>>

\* line 198: one_time_token = handler.one_time_token
ReadOneTimeToken(p) ==
    /\ procs[p].pc = "l198"
    /\ procs' = [procs EXCEPT ![p].one_time_token = one_time_token(settings),
                              ![p].pc = "l200"]
    /\ UNCHANGED <<settings, handler, uuid_counter, ott_uses, born, calls, phase, last>>

\* lines 200-204: the two comparisons
Compare(p) ==
    /\ procs[p].pc = "l200"
    /\ LET me == procs[p]
       IN  procs' = [procs EXCEPT
              ![p].authenticated = (me.user_token = me.token),
              ![p].pc = IF me.user_token = me.token THEN "l210"
                        ELSE IF /\ me.one_time_token # None
                                /\ me.one_time_token # ""
                                /\ me.user_token = me.one_time_token
                             THEN "l206" ELSE "l210"]
    /\ UNCHANGED <<settings, handler, uuid_counter, ott_uses, born, calls, phase, last>>

\* lines 206-208: handler.settings.pop('one_time_token', None); authenticated = True
Consume(p) ==
    /\ procs[p].pc = "l206"
    /\ settings' = pop_one_time_token(settings)
    /\ ott_uses' = ott_uses + 1
    /\ procs' = [procs EXCEPT ![p].authenticated = TRUE, ![p].by_ott = TRUE,
                              ![p].pc = "l210"]
    /\ UNCHANGED <<handler, uuid_counter, born, calls, phase, last>>

\* lines 210-213: return uuid.uuid4().hex if authenticated else None
Return(p) ==
    /\ procs[p].pc = "l210"
    /\ procs' = [procs EXCEPT ![p].ret = IF procs[p].authenticated
                                          THEN Uuid(uuid_counter) ELSE NoUser,
                              ![p].pc = "done"]
    /\ uuid_counter' = IF procs[p].authenticated THEN uuid_counter + 1 ELSE uuid_counter
    /\ UNCHANGED <<settings, handler, ott_uses, born, calls, phase, last>>

InitConc ==
    /\ settings \in {a @@ ("base_url" :> <<"/">>) @@ ("allow_origin" :> <<>>) :
                        a \in TokenConfigs}
    /\ uuid_counter = 1
    /\ handler = NewHandler(NoRequest)
    /\ ott_uses = 0
    /\ born = 1
    /\ calls = 0
    /\ phase = "idle"
    /\ last = NoCall
    /\ procs \in [Procs -> {Entering([NoRequest EXCEPT !.token_arg = t]) :
                               t \in {"ott", "tok", "bad"}}]

NextConc ==
    \E p \in Procs :
        \/ ReadToken(p)
        \/ ReadUserToken(p)
        \/ ReadOneTimeToken(p)
        \/ Compare(p)
        \/ Consume(p)
        \/ Return(p)

SpecConc == InitConc /\ [][NextConc]_vars

\* ------------------------------------------------ claims on _redirect_safe
\* a finished call of _redirect_safe
RedirectDone == phase = "done" /\ last.op = "_redirect_safe"

NoBackslash(str) == \A i \in 1..Len(str) : str[i] # "\\"

\* what the call was given, by Python's own reading of the candidate, and what
\* the handler shows of it afterwards
RedirectFacts ==
    LET candidate == replace_backslash(last.next)
        parsed    == urlparse(candidate)
        origin    == Lower(FormatOrigin(parsed.scheme, parsed.netloc))
        target    == handler.redirects[1]
        default   == IF last.default = NoUrl THEN base_url(settings) ELSE last.default
    IN  [candidate |-> candidate,
         scheme    |-> parsed.scheme,
         netloc    |-> parsed.netloc,
         path      |-> parsed.path,
         \* the candidate differs from its path-only reconstruction
         full_url  |-> candidate # urlunparse([parsed EXCEPT !.netloc = <<>>, !.scheme = <<>>]),
         under_base |-> StartsWith(parsed.path \o <<"/">>, base_url(settings)),
         own       |-> origin = request_origin(handler.request),
         exact     |-> allow_origin(settings) # <<>> /\ origin = allow_origin(settings),
         pat       |-> /\ allow_origin_pat(settings) # NoUrl
                       /\ StartsWith(origin, allow_origin_pat(settings)),
         target    |-> target,
         \* the call redirected to the candidate, without falling back
         accepted  |-> handler.warnings = <<>> /\ target = candidate,
         \* the call logged the candidate and redirected to the default
         fell_back |-> handler.warnings = <<candidate>> /\ target = default]

\* C3: _redirect_safe redirects exactly once, to the normalized candidate only
\* if it has neither scheme nor authority and lies under base_url or if it is
\* a full URL whose lowercased origin is the request's or an allowed one, and
\* otherwise to the default after logging a warning; a protocol-relative
\* candidate whose origin is not admitted is never accepted.
C3_RedirectTargetIsSafe ==
    RedirectDone =>
        LET f == RedirectFacts
        IN  /\ Len(handler.redirects) = 1
            /\ f.accepted \/ f.fell_back
            /\ f.accepted =>
                  \/ f.scheme = <<>> /\ f.netloc = <<>> /\ f.under_base
                  \/ f.full_url /\ (f.own \/ f.exact \/ f.pat)
            /\ (f.scheme = <<>> /\ f.netloc # <<>> /\ ~(f.own \/ f.exact \/ f.pat))
                  => f.fell_back

\* a protocol-relative candidate whose path lies under base_url was sent to the default
C3_Witness ==
    /\ RedirectDone
    /\ base_url(settings) = <<"/", "h", "/">>
    /\ LET f == RedirectFacts
       IN  /\ f.scheme = <<>> /\ f.netloc # <<>> /\ f.under_base
           /\ f.fell_back /\ f.target # f.candidate

\* C4 as claimed: a full-URL candidate is accepted exactly when its origin is
\* the request's own, or the configured exact origin, or matches the
\* configured pattern, each alone being enough.
C4_AnyOfThreeSuffices ==
    RedirectDone =>
        LET f == RedirectFacts
        IN  f.full_url => (f.accepted <=> (f.own \/ f.exact \/ f.pat))

\* C4 amended: a full-URL candidate is accepted exactly when its origin is the
\* request's own, or equals the configured exact origin, or, only when no
\* exact origin is configured, matches the configured pattern; otherwise it
\* is rejected.
C4_PatternOnlyWithoutExact ==
    RedirectDone =>
        LET f == RedirectFacts
        IN  f.full_url =>
              /\ f.accepted <=> (f.own \/ f.exact \/ (allow_origin(settings) = <<>> /\ f.pat))
              /\ ~f.accepted => f.fell_back

\* a full URL matching only the pattern was rejected because an exact origin is configured
C4_Witness ==
    /\ RedirectDone
    /\ allow_origin(settings) # <<>>
    /\ LET f == RedirectFacts
       IN  /\ f.full_url /\ f.pat /\ ~f.own /\ ~f.exact
           /\ f.fell_back /\ f.target # f.candidate

\* C5: a candidate equal to its path-only reconstruction is redirected to as
\* given when its path plus '/' starts with base_url, and replaced by the
\* default otherwise, whatever the request origin and the allowed origins.
C5_PathOnlyUnderBase ==
    RedirectDone =>
        LET f == RedirectFacts
        IN  ~f.full_url => /\ f.under_base => f.accepted
                           /\ ~f.under_base => f.fell_back

\* the path '/h' was accepted under base_url '/h/', and only through the added '/'
C5_Witness ==
    /\ RedirectDone
    /\ allow_origin(settings) # <<>>
    /\ LET f == RedirectFacts
       IN  /\ ~f.full_url /\ f.under_base /\ ~StartsWith(f.path, base_url(settings))
           /\ f.accepted

\* C6: the url _redirect_safe parses, logs and redirects to holds no backslash,
\* nor does its scheme or authority, and a candidate that begins with two
\* backslashes or slash-backslash is parsed with an empty authority.
C6_NoBackslashSurvives ==
    RedirectDone =>
        LET url    == normalized(last.next)
            parsed == urlparse(url)
        IN  /\ NoBackslash(url)
            /\ NoBackslash(parsed.scheme)
            /\ NoBackslash(parsed.netloc)
            /\ \A i \in 1..Len(handler.warnings) : NoBackslash(handler.warnings[i])
            /\ handler.warnings = <<>> => NoBackslash(handler.redirects[1])
            /\ (\/ StartsWith(last.next, <<"\\", "\\">>)
                \/ StartsWith(last.next, <<"/", "\\">>)) => parsed.netloc = <<>>

\* '/\h' was accepted as the path '/%5Ch'
C6_Witness ==
    /\ RedirectDone
    /\ last.next = <<"/", "\\", "h">>
    /\ handler.warnings = <<>>
    /\ handler.redirects = << <<"/", "%", "5", "C", "h">> >>

\* ------------------------------------------- claims on the one-time token
\* C1: over requests handled one after another, at most one is authenticated
\* by the one-time token; its use removes 'one_time_token' from the settings,
\* and from then on get_user_token answers a request presenting that value
\* with None, as it answers a request presenting a wrong token.
C1_OneTimeTokenOnce ==
    /\ ott_uses <= 1
    /\ ott_uses = 1 =>
          /\ "one_time_token" \notin DOMAIN settings
          /\ \A r \in Requests(uuid_counter) :
                LET wrong == [r EXCEPT !.token_arg = "bad"]
                    now(q) == [World EXCEPT !.h = NewHandler(q)]
                    later == get_user_token(now(r))
                IN  get_token(r) = "ott" =>
                      /\ later.ret = NoUser
                      /\ later.ret = get_user_token(now(wrong)).ret
                      /\ later.settings = settings

\* after the one-time token was used, a request presenting it was resolved to nobody
C1_Witness ==
    /\ ott_uses = 1
    /\ phase = "open"
    /\ last.op = "get_user"
    /\ token(settings) # ""
    /\ get_token(handler.request) = "ott"
    /\ handler.token_returns = {NoUser}
    /\ last.ret = NoUser
    /\ ~handler.token_authenticated

\* C2: when the requests in get_user_token all present the configured one-time
\* token and their statements interleave, exactly one of them is authenticated
\* and the others are answered None.
C2_ExactlyOneConcurrentUse ==
    (/\ \A p \in Procs : procs[p].pc = "done" /\ procs[p].user_token = "ott"
     /\ ott_uses >= 1)
        => Cardinality({p \in Procs : procs[p].ret # NoUser}) = 1

\* ------------------------------------- claims on token-authenticated requests
\* get_user_token returned an identity on the current handler
TokenReturned == handler.token_returns \ {NoUser}

\* C7: should_check_origin returns False only for a request on which
\* get_user_token returned an identity for a token that request presented; it
\* returns True for a request resolved to nobody, to 'anonymous' or to the
\* identity of its cookie, before and after get_user has run.
C7_OriginCheckOnlyWaivedForToken ==
    (phase = "open" /\ last.op = "should_check_origin") =>
        /\ last.ret \in BOOLEAN
        /\ last.ret = FALSE =>
              /\ TokenReturned # {}
              /\ token(settings) # ""
              /\ get_token(handler.request) \in {token(settings), "ott"}
              /\ handler.user_id \in TokenReturned
        /\ (\/ handler.user_id \in {NoUser, Anonymous}
            \/ handler.user_id = get_secure_cookie(handler.request)) => last.ret = TRUE

\* a cookie-authenticated request whose identity was already resolved must check the origin
C7_Witness ==
    /\ phase = "open" /\ last.op = "should_check_origin"
    /\ calls = 2
    /\ get_secure_cookie(handler.request) # NoUser
    /\ handler.user_id = get_secure_cookie(handler.request)
    /\ handler.cleared = 0
    /\ last.ret = TRUE

\* C8: a request is marked token-authenticated exactly when get_user_token
\* returned an identity for it; that identity was minted during this request,
\* differs from the identity of the request's cookie, is the first login
\* cookie set on the request and is what get_user returns.
C8_TokenAuthenticatedMeansFreshCookie ==
    phase # "idle" =>
        /\ handler.token_authenticated <=> TokenReturned # {}
        /\ \A id \in TokenReturned :
              /\ TokenReturned = {id}
              /\ id[1] = "uuid" /\ id[2] >= born /\ id[2] < uuid_counter
              /\ id # get_secure_cookie(handler.request)
              /\ Len(handler.cookies) >= 1
              /\ handler.cookies[1].value = id
              /\ handler.user_id = id
              /\ last.op = "get_user" => last.ret = id

\* a request with a valid cookie and the static token got a new identity and cookie
C8_Witness ==
    /\ phase = "open" /\ last.op = "get_user"
    /\ handler.token_authenticated
    /\ get_secure_cookie(handler.request) = Uuid(1)
    /\ last.ret = Uuid(2)
    /\ Len(handler.cookies) = 1 /\ handler.cookies[1].value = Uuid(2)

\* --------------------------------------------------------- claims on POST
\* the step taken by post()
PostStep == phase = "open" /\ phase' = "done" /\ last'.op = "post"

\* the submitted password verifies against the hash or equals the static token
Verifies(typed_password) ==
    \/ passwd_check(password_from_settings(settings), typed_password)
    \/ token(settings) # "" /\ token(settings) = typed_password

\* C9: with login available, a POST whose password neither verifies against
\* the hash nor equals the static token sets status 401, renders the form once
\* with 'Invalid password', sets no cookie and issues no redirect.
C9_BadPasswordIs401 ==
    [][(PostStep /\ get_login_available(settings) /\ ~Verifies(last'.password)) =>
          /\ handler'.status = 401
          /\ Len(handler'.rendered) = Len(handler.rendered) + 1
          /\ handler'.rendered[Len(handler'.rendered)].message = "Invalid password"
          /\ handler'.cookies = handler.cookies
          /\ handler'.cleared = handler.cleared
          /\ handler'.redirects = <<>>
          /\ uuid_counter' = uuid_counter
          /\ settings' = settings]_vars

\* with password and token configured, a POST of a third value was answered 401
C9_Witness ==
    /\ phase = "done" /\ last.op = "post"
    /\ password_from_settings(settings) # "" /\ token(settings) # ""
    /\ last.password = "ott"
    /\ handler.status = 401
    /\ handler.cookies = <<>> /\ handler.redirects = <<>>
    /\ Len(handler.rendered) = 1

\* C10: with login available, a POST whose password verifies against the hash
\* or equals the configured static token sets exactly one login cookie, with
\* an identity minted by this call, never sets status 401, does not render the
\* form and issues exactly one redirect, to what _redirect_safe resolves from
\* 'next' (base_url when absent).
C10_GoodPasswordLogsIn ==
    [][(PostStep /\ get_login_available(settings) /\ Verifies(last'.password)) =>
          /\ Len(handler'.cookies) = Len(handler.cookies) + 1
          /\ SubSeq(handler'.cookies, 1, Len(handler.cookies)) = handler.cookies
          /\ handler'.cookies[Len(handler'.cookies)].value = Uuid(uuid_counter)
          /\ uuid_counter' = uuid_counter + 1
          /\ handler'.status # 401
          /\ handler'.rendered = handler.rendered
          /\ handler'.redirects =
                _redirect_safe(settings, NewHandler(handler.request),
                               IF last'.next = NoUrl THEN base_url(settings) ELSE last'.next,
                               NoUrl).redirects]_vars

\* with only a token configured, a POST of the token as password logged in
C10_Witness ==
    /\ phase = "done" /\ last.op = "post"
    /\ password_from_settings(settings) = "" /\ last.password = "tok"
    /\ handler.status = 200
    /\ Len(handler.cookies) = 1 /\ handler.cookies[1].value = Uuid(born)
    /\ handler.rendered = <<>>
    /\ Len(handler.redirects) = 1

\* ------------------------------------- claims on servers without a login
\* a password or a static token is configured
Configured == password_from_settings(settings) # "" \/ token(settings) # ""

\* the token the current request presents is the static token or the
\* one-time token still configured, on a server with a static token
TokenMatches ==
    /\ token(settings) # ""
    /\ \/ get_token(handler.request) = token(settings)
       \/ /\ "one_time_token" \in DOMAIN settings
          /\ settings["one_time_token"] # ""
          /\ get_token(handler.request) = settings["one_time_token"]

\* the request's cookie carries a signature that verifies
ValidCookie == handler.request.cookie # NoCookie /\ handler.request.cookie[1] = "signed"

\* a step in which get_user, called directly or through is_token_authenticated
\* or should_check_origin, resolves a handler that holds no identity yet
FirstResolve ==
    /\ phase = "open" /\ phase' = "open"
    /\ calls' = calls + 1
    /\ handler.user_id = NoUser

\* the step taken by get()
GetStep == phase = "open" /\ phase' = "done" /\ last'.op = "get"

\* what _redirect_safe makes of the 'next' argument of the step, on a fresh handler
ResolvedNext ==
    _redirect_safe(settings, NewHandler(handler.request),
                   IF last'.next = NoUrl THEN base_url(settings) ELSE last'.next,
                   NoUrl).redirects

\* C11: with neither a password nor a token configured, POST checks no
\* credential whatever password is submitted: it never sets status 401, never
\* renders the form, sets no login cookie and mints no identity, and issues
\* the one redirect _redirect_safe resolves from 'next'.
C11_NoLoginPostRedirects ==
    [][(PostStep /\ ~Configured) =>
          /\ handler'.status = 200
          /\ handler'.rendered = <<>>
          /\ handler'.cookies = handler.cookies
          /\ uuid_counter' = uuid_counter
          /\ settings' = settings
          /\ handler'.redirects = ResolvedNext
          /\ Len(handler'.redirects) = 1]_vars

\* on a server without password and token a POST of a password was redirected
C11_Witness ==
    /\ phase = "done" /\ last.op = "post"
    /\ ~Configured
    /\ last.password = "pw"
    /\ handler.status = 200
    /\ handler.cookies = <<>> /\ handler.rendered = <<>>
    /\ Len(handler.redirects) = 1

\* C12: get_user resolves a request to 'anonymous' exactly when it presents no
\* matching token, has no valid cookie and neither password nor token is
\* configured, and to None when one of them is configured; so GET on an
\* unconfigured server never renders the form and always redirects, and GET
\* with login available, without valid token or cookie, renders the form and
\* does not redirect.
C12_AnonymousOnlyWithoutLogin ==
    [][/\ FirstResolve =>
            LET nobody == ~TokenMatches /\ ~ValidCookie
            IN  /\ handler'.user_id = Anonymous <=> (nobody /\ ~Configured)
                /\ (nobody /\ Configured) => handler'.user_id = NoUser
                /\ last'.op = "get_user" => last'.ret = handler'.user_id
       /\ GetStep =>
            /\ ~Configured =>
                  /\ handler'.rendered = <<>>
                  /\ Len(handler'.redirects) = 1
            /\ (Configured /\ ~TokenMatches /\ TokenReturned = {} /\ ~ValidCookie) =>
                  /\ Len(handler'.rendered) = 1
                  /\ handler'.redirects = <<>>]_vars

\* a GET without cookie on an unconfigured server was redirected as 'anonymous'
C12_Witness ==
    /\ phase = "done" /\ last.op = "get"
    /\ ~Configured
    /\ handler.request.cookie = NoCookie
    /\ handler.user_id = Anonymous
    /\ handler.rendered = <<>>
    /\ Len(handler.redirects) = 1

\* C13: once get_user has run on a request that is not token-authenticated, a
\* missing cookie or one whose signature fails has given no identity and the
\* login cookie was cleared, and a valid cookie has given its identity
\* without being cleared or issued again.
C13_BadCookieIsNobody ==
    (phase = "open" /\ calls >= 1 /\ ~handler.token_authenticated) =>
        /\ handler.cookies = <<>>
        /\ last.op = "get_user" => last.ret = handler.user_id
        /\ (\/ handler.request.cookie = NoCookie
            \/ handler.request.cookie[1] = "badsig") =>
              /\ handler.user_id \in {NoUser, Anonymous}
              /\ handler.user_id = NoUser <=> Configured
              /\ handler.cleared >= 1
        /\ (/\ handler.request.cookie # NoCookie
            /\ handler.request.cookie[1] = "signed") =>
              /\ handler.user_id = handler.request.cookie[2]
              /\ handler.cleared = 0

\* a request whose cookie fails verification was resolved to nobody and its cookie cleared
C13_Witness ==
    /\ phase = "open" /\ last.op = "get_user"
    /\ handler.request.cookie = BadCookie(Uuid(0))
    /\ last.ret = NoUser
    /\ handler.cleared = 1
    /\ handler.cookies = <<>>

\* C14: while no static token is configured, get_user_token answers every
\* request with None, also one presenting the configured one-time token: no
\* request becomes token-authenticated and the one-time token stays configured.
C14_NoTokenNoTokenAuth ==
    [][token(settings) = "" =>
          /\ phase = "idle" =>
                \A r \in Requests(uuid_counter) :
                   LET asked == get_user_token([World EXCEPT !.h = NewHandler(r)])
                   IN  asked.ret = NoUser /\ asked.settings = settings
          /\ one_time_token(settings') = one_time_token(settings)
          /\ ott_uses' = 0
          /\ handler'.token_returns \subseteq {NoUser}
          /\ ~handler'.token_authenticated]_vars

\* without a static token, a request presenting the configured one-time token was refused
C14_Witness ==
    /\ phase = "open" /\ last.op = "get_user"
    /\ token(settings) = ""
    /\ "one_time_token" \in DOMAIN settings
    /\ handler.request.token_arg = settings["one_time_token"]
    /\ handler.token_returns = {NoUser}
    /\ ~handler.token_authenticated
    /\ last.ret \in {NoUser, Anonymous}

\* ---------------------------------------------- claims on the login cookie
\* the cookie_options held by the settings set this attribute to False
ConfiguredOff(attribute) ==
    /\ "cookie_options" \in DOMAIN settings
    /\ attribute \in DOMAIN settings["cookie_options"]
    /\ settings["cookie_options"][attribute] = FALSE

\* the options of a cookie carry this attribute as True
Carries(options, attribute) ==
    attribute \in DOMAIN options /\ options[attribute] = TRUE

\* C15 as claimed: every login cookie set on a request is HTTP-only, and
\* carries 'secure' whenever the request came over https or secure_cookie is
\* true, for every secure_cookie setting and every configured cookie_options.
C15_AlwaysHttpOnlySecureOnHttps ==
    \A i \in 1..Len(handler.cookies) :
        /\ Carries(handler.cookies[i].options, "httponly")
        /\ (\/ handler.request.protocol = HTTPS
            \/ ("secure_cookie" \in DOMAIN settings /\ settings["secure_cookie"] = TRUE))
              => Carries(handler.cookies[i].options, "secure")

\* C15 amended: every login cookie set on a request is HTTP-only unless the
\* configured cookie_options set 'httponly' to false, and carries 'secure'
\* whenever secure_cookie is true, or is not set and the request came over
\* https, unless the configured cookie_options set 'secure' to false.
C15_AttributesUnlessConfigured ==
    \A i \in 1..Len(handler.cookies) :
        /\ ~ConfiguredOff("httponly") => Carries(handler.cookies[i].options, "httponly")
        /\ (/\ ~ConfiguredOff("secure")
            /\ \/ "secure_cookie" \in DOMAIN settings /\ settings["secure_cookie"] = TRUE
               \/ "secure_cookie" \notin DOMAIN settings /\ handler.request.protocol = HTTPS)
              => Carries(handler.cookies[i].options, "secure")

\* with secure_cookie true, a login cookie set on an http request carried 'secure'
C15_Witness ==
    /\ phase # "idle"
    /\ handler.request.protocol = HTTP
    /\ "secure_cookie" \in DOMAIN settings /\ settings["secure_cookie"] = TRUE
    /\ "cookie_options" \notin DOMAIN settings
    /\ Len(handler.cookies) = 1
    /\ Carries(handler.cookies[1].options, "secure")
    /\ Carries(handler.cookies[1].options, "httponly")

\* C16: the only change a request makes to the settings is the removal of
\* 'one_time_token' when it is used: password, token, allowed origins,
\* secure_cookie and cookie_options stay as configured.
C16_SettingsOnlyLoseOneTimeToken ==
    [][\/ settings' = settings
       \/ /\ ott_uses' = ott_uses + 1
          /\ settings' = Pop(settings, "one_time_token")]_vars

\* ------------------------------------------------------ claims on get_token
\* the token a request presents, read off the request as the claim words it:
\* the 'token' argument unless empty, else the value of an Authorization
\* header whose keyword is 'token' in any case, else nothing
Presented(request) ==
    IF request.token_arg # "" THEN request.token_arg
    ELSE IF request.authorization.keyword \in {"token", "Token", "TOKEN"}
    THEN request.authorization.value
    ELSE ""

\* the tokens the server accepts: the static one, and the one-time one while configured
Accepted ==
    {token(settings)} \cup
    (IF "one_time_token" \in DOMAIN settings THEN {settings["one_time_token"]} ELSE {})

\* C17: get_token returns the 'token' argument when it is not empty, else the
\* value of an Authorization header 'token <value>' in any case of the
\* keyword, else the empty string; so a request is token-authenticated by
\* what its non-empty 'token' argument holds, never by the header behind it.
C17_ArgumentBeforeHeader ==
    [][/\ phase # "idle" => get_token(handler.request) = Presented(handler.request)
       /\ (FirstResolve /\ token(settings) # "") =>
             (handler'.token_authenticated <=> Presented(handler.request) \in Accepted)]_vars

\* a wrong 'token' argument was refused although the header held the static token
C17_Witness ==
    /\ phase = "open" /\ last.op = "get_user"
    /\ token(settings) = "tok"
    /\ handler.request.token_arg = "bad"
    /\ handler.request.authorization = [keyword |-> "Token", value |-> "tok"]
    /\ handler.token_returns = {NoUser}
    /\ ~handler.token_authenticated

\* ------------------------------------------ claims on get_user in a request
\* a further call of get_user, is_token_authenticated or should_check_origin
\* on a handler that was already asked
LaterCall ==
    /\ phase = "open" /\ phase' = "open"
    /\ calls >= 1 /\ calls' = calls + 1

\* C18: within one request, every call after the first resolves the same
\* identity as the first and changes neither cookies, identities minted,
\* one-time token nor settings: the request sets at most one login cookie and
\* mints at most one identity, whether it is authenticated or nobody.
C18_GetUserOncePerRequest ==
    [][/\ LaterCall =>
             /\ handler'.user_id = handler.user_id
             /\ handler'.token_authenticated = handler.token_authenticated
             /\ handler'.cookies = handler.cookies
             /\ uuid_counter' = uuid_counter
             /\ ott_uses' = ott_uses
             /\ settings' = settings
             /\ last'.op = "get_user" => last'.ret = handler.user_id
             /\ last'.op = last.op => last'.ret = last.ret
       /\ phase' = "open" =>
             /\ Len(handler'.cookies) <= 1
             /\ uuid_counter' - born' <= 1
             /\ Cardinality(handler'.token_returns \ {NoUser}) <= 1]_vars

\* a token-authenticated request asked twice holds one cookie and one identity
C18_Witness ==
    /\ phase = "open" /\ calls = 2
    /\ last.op = "get_user"
    /\ handler.token_authenticated
    /\ last.ret = handler.user_id
    /\ Len(handler.cookies) = 1
    /\ uuid_counter = born + 1

\* C19: get_user reads the cookie only when the token gives no identity: with
\* a valid cookie and a matching token the request is token-authenticated,
\* gets a new identity and a new cookie and need not check the origin; with a
\* valid cookie and no matching token it has the cookie's identity, gets no
\* cookie and must check the origin.
C19_TokenBeforeCookie ==
    [][(FirstResolve /\ ValidCookie) =>
          /\ TokenMatches =>
                /\ handler'.token_authenticated
                /\ handler'.user_id = Uuid(uuid_counter)
                /\ handler'.user_id # handler.request.cookie[2]
                /\ Len(handler'.cookies) = Len(handler.cookies) + 1
                /\ handler'.cookies[Len(handler'.cookies)].value = Uuid(uuid_counter)
                /\ last'.op = "should_check_origin" => last'.ret = FALSE
          /\ ~TokenMatches =>
                /\ ~handler'.token_authenticated
                /\ handler'.user_id = handler.request.cookie[2]
                /\ handler'.cookies = handler.cookies
                /\ handler'.cleared = handler.cleared
                /\ uuid_counter' = uuid_counter
                /\ last'.op = "should_check_origin" => last'.ret = TRUE]_vars

\* a request with a valid cookie and the static token was exempted from the origin check
C19_Witness ==
    /\ phase = "open" /\ calls = 1
    /\ last.op = "should_check_origin"
    /\ ValidCookie
    /\ last.ret = FALSE
    /\ handler.token_authenticated
    /\ Len(handler.cookies) = 1
    /\ handler.cookies[1].value # handler.request.cookie[2]

\* -------------------------------------- claims on POST and the one-time token
\* the one-time token is configured
HasOneTimeToken == "one_time_token" \in DOMAIN settings

\* the requests that present the one-time token in their 'token' argument
PresentingOneTimeToken(n) ==
    [token_arg : {settings["one_time_token"]}, authorization : AuthHeaders,
     cookie : {NoCookie, SignedCookie(Uuid(n - 1))}, protocol : {HTTP}, host : {<<"h">>}]

\* after the step, every request presenting the one-time token is accepted by
\* get_user_token, which removes it
StillUsableOnce ==
    \A r \in PresentingOneTimeToken(uuid_counter') :
        LET asked == get_user_token([settings |-> settings', h |-> NewHandler(r),
                                     uuid |-> uuid_counter', ott_uses |-> ott_uses',
                                     ret |-> None])
        IN  /\ asked.ret # NoUser
            /\ "one_time_token" \notin DOMAIN asked.settings

\* C20 as claimed: a POST whose password is the configured one-time token,
\* and neither verifies against the hash nor equals the static token, is
\* answered 401 without cookie; no POST removes the one-time token, and a
\* later request presenting it can still use it once.
C20_PostNeverUsesOneTimeToken ==
    [][(PostStep /\ HasOneTimeToken) =>
          /\ HasOneTimeToken'
          /\ settings'["one_time_token"] = settings["one_time_token"]
          /\ ott_uses' = ott_uses
          /\ StillUsableOnce
          /\ (last'.password = settings["one_time_token"] /\ ~Verifies(last'.password)) =>
                /\ handler'.status = 401
                /\ handler'.cookies = handler.cookies]_vars

\* C20 amended: no POST removes the one-time token or counts as a use of it;
\* a POST whose password is the one-time token, and neither verifies against
\* the hash nor equals the static token, sets no cookie and, where a password
\* or static token is configured, is answered 401; where a static token is
\* configured a later request presenting the one-time token can still use it
\* once.
C20_PostLeavesOneTimeToken ==
    [][(PostStep /\ HasOneTimeToken) =>
          /\ HasOneTimeToken'
          /\ settings'["one_time_token"] = settings["one_time_token"]
          /\ ott_uses' = ott_uses
          /\ token(settings) # "" => StillUsableOnce
          /\ (last'.password = settings["one_time_token"] /\ ~Verifies(last'.password)) =>
                /\ handler'.cookies = handler.cookies
                /\ Configured => handler'.status = 401]_vars

\* a POST of the one-time token as password got 401 and left the token configured
C20_Witness ==
    /\ phase = "done" /\ last.op = "post"
    /\ HasOneTimeToken
    /\ token(settings) # ""
    /\ last.password = settings["one_time_token"]
    /\ handler.status = 401
    /\ handler.cookies = <<>>
    /\ ott_uses = 0

====
